---- MODULE Spec2Model ----
(***************************************************************************)
(* State-machine model of the quorum ack tracker (package server) found in *)
(* src/common/metrics/unit.go: NewQuorumAckTracker, AdvanceHeadOffset,     *)
(* NextOffset, WaitForHeadOffset, WaitForCommitOffset[Async],              *)
(* notifyCommitOffsetAdvanced, Close, NewCursorAcker and cursorAcker.ack.  *)
(* Every method that takes the tracker mutex is one atomic action; the     *)
(* blocking methods (WaitForHeadOffset, WaitForCommitOffset) are split at  *)
(* the points where they release the mutex or block on a channel.          *)
(***************************************************************************)
EXTENDS Integers, Sequences, FiniteSets, TLC

\* ------------------------------------------------------------------ bounds
\* Largest offset the head is advanced to / a waiter asks for.
MaxOffset == 2
\* Largest head and commit offset handed to NewQuorumAckTracker.
MaxInit == 1
\* Largest replication factor a tracker is built with.
MaxRF == 4
\* Number of callers of WaitForCommitOffset / WaitForCommitOffsetAsync.
NumWaiters == 2
\* Number of NextOffset calls.
MaxNextCalls == 2
\* Shard ids are 1..NumShards, hash values 0..MaxHash.
NumShards == 2
MaxHash == 2
\* Assignment messages the coordinator's streams deliver.
MaxBatches == 3

Offsets == 0..MaxOffset
Waiters == 1..NumWaiters

VARIABLES
    \* fields of quorumAckTracker
    waitingRequests,     \* []waitingRequest, front first
    replicationFactor,
    requiredAcks,
    nextOffset,
    headOffset,
    commitOffset,
    tracker,             \* map[int64]*BitSet: offset -> set of cursor indices
    cursorIdxGenerator,
    closed,
    \* callers of WaitForCommitOffset[Async]: one closure each
    wpc,                 \* "idle" | "async" | "select" | "returned"
    woffset,             \* the offset the caller waits for
    ch,                  \* WaitForCommitOffset's channel: number of buffered items
    calls,               \* per closure, the invocations it received, in order
    \* the caller of WaitForHeadOffset
    hpc,                 \* "idle" | "waiting" | "woken" | "returned"
    hoffset,
    hresult,             \* "none" | "nil" | "Canceled"
    \* observations
    initHead,            \* NewQuorumAckTracker's headOffset argument
    initCommit,          \* NewQuorumAckTracker's commitOffset argument
    returned,            \* values returned by NextOffset, in call order
    acked,               \* <<cursorIdx, offset>> pairs passed to ack so far
    granted,             \* cursor indices of the CursorAckers returned, in call order
    unreserved,          \* AdvanceHeadOffset got an offset NextOffset never returned
    lastOp,              \* the last call that returned, and the offsets it found
    skipped,             \* AdvanceHeadOffset raised the head by more than one
    notified,            \* per offset, the calls of notifyCommitOffsetAdvanced with it
    popped,              \* closures a commit advancement took out of waitingRequests
    \* fields of shardManagerImpl and the tasks Start spawns
    shards,              \* map[uint32]Shard: shard id -> hash range
    closeC,              \* TRUE once the channel is closed
    ctxDone,             \* the RPC context is cancelled
    startPc,             \* caller of Start: "idle" | "ready?" (at <-readyC) | "returned"
    recvPc,              \* receiver task: "none" | "connect" | "recv" | "ready!"
                         \*   (at readyC <- true) | "backoff" | "exited"
    cancelPc,            \* cancellation task: "none" | "waiting" | "done"
    received             \* number of assignment messages applied

trackerVars == <<waitingRequests, replicationFactor, requiredAcks, nextOffset,
                 headOffset, commitOffset, tracker, cursorIdxGenerator, closed>>
waiterVars == <<wpc, woffset, ch, calls>>
headWaitVars == <<hpc, hoffset, hresult>>
obsVars == <<initHead, initCommit, returned, acked, granted, unreserved, lastOp,
            skipped, notified, popped>>
shardVars == <<shards, closeC, ctxDone, startPc, recvPc, cancelPc, received>>
vars == <<trackerVars, waiterVars, headWaitVars, obsVars, shardVars>>

\* ------------------------------------------------------------ util.BitSet
BitSetSet(e, i) == e \cup {i}
BitSetCount(e) == Cardinality(e)

\* --------------------------------------------------- NewQuorumAckTracker
RequiredAcks(rf) == rf \div 2

NewTrackerMap(head, commit) == [o \in (commit + 1)..head |-> {}]

\* q.nextOffset.Store(headOffset), with a slip that stores the commit offset.
NextOffsetFromCommit(head, commit) == commit

\* q.nextOffset.Store(headOffset)
InitialNextOffset(head, commit) == head

Init ==
    /\ replicationFactor \in 1..MaxRF
    /\ requiredAcks = RequiredAcks(replicationFactor)
    /\ initHead \in 0..MaxInit
    /\ initCommit \in 0..MaxInit
    /\ nextOffset = InitialNextOffset(initHead, initCommit)
    /\ headOffset = initHead
    /\ commitOffset = initCommit
    /\ tracker = NewTrackerMap(initHead, initCommit)
    /\ waitingRequests = <<>>
    /\ cursorIdxGenerator = 0
    /\ closed = FALSE
    /\ wpc = [w \in Waiters |-> "idle"]
    /\ woffset = [w \in Waiters |-> 0]
    /\ ch = [w \in Waiters |-> 0]
    /\ calls = [w \in Waiters |-> <<>>]
    /\ notified = [o \in Offsets |-> 0]
    /\ popped = {}
    /\ hpc = "idle"
    /\ hoffset = 0
    /\ hresult = "none"
    /\ returned = <<>>
    /\ acked = {}
    /\ granted = <<>>
    /\ unreserved = FALSE
    /\ lastOp = [op |-> "NewQuorumAckTracker", arg |-> initHead, err |-> "nil",
                 head |-> initHead, commit |-> initCommit, idx |-> 0]
    /\ skipped = FALSE
    /\ shards = << >>
    /\ closeC = FALSE
    /\ ctxDone = FALSE
    /\ startPc = "idle"
    /\ recvPc = "none"
    /\ cancelPc = "none"
    /\ received = 0

\* ------------------------------------------- the state the ack path works on
\* The part of the tracker (and of the closures it calls) that ack and
\* notifyCommitOffsetAdvanced read and write, as one record, with the log of the
\* calls of notifyCommitOffsetAdvanced.
Locked == [tracker |-> tracker, commitOffset |-> commitOffset,
           waitingRequests |-> waitingRequests, calls |-> calls, ch |-> ch,
           notified |-> notified]

\* r.closure(ctx, err): the caller's closure runs; the closure WaitForCommitOffset
\* registered (r.wrapped) then sends on its channel.
Invoke(s, r, err) ==
    [s EXCEPT !.calls[r.closure] = Append(@, [err |-> err, commit |-> s.commitOffset]),
              !.ch[r.closure] = IF r.wrapped THEN @ + 1 ELSE @]

\* A scan that stops after the first waiter it pops.
DrainWaitingOnce(s, newCommit) ==
    IF s.waitingRequests = <<>> THEN s
    ELSE LET r == Head(s.waitingRequests) IN
         IF r.minOffset > newCommit THEN s
         ELSE Invoke([s EXCEPT !.waitingRequests = Tail(@)], r, "nil")

\* A scan that serves every waiter the commit offset has reached, wherever it
\* stands in the queue.
RECURSIVE DrainWaitingSkipping(_, _)
DrainWaitingSkipping(s, newCommit) ==
    IF s.waitingRequests = <<>> THEN s
    ELSE LET r == Head(s.waitingRequests)
             rest == DrainWaitingSkipping([s EXCEPT !.waitingRequests = Tail(@)],
                                          newCommit)
         IN IF r.minOffset > newCommit
            THEN [rest EXCEPT !.waitingRequests = <<r>> \o @]
            ELSE Invoke(rest, r, "nil")

RECURSIVE DrainWaiting(_, _)
DrainWaiting(s, newCommit) ==
    IF s.waitingRequests = <<>> THEN s
    ELSE LET r == Head(s.waitingRequests) IN
         IF r.minOffset > newCommit THEN s
         ELSE DrainWaiting(
                Invoke([s EXCEPT !.waitingRequests = Tail(@)], r, "nil"), newCommit)

\* A notification that wakes the waiters without storing the commit offset.
notifyWithoutStore(s, newCommit) == DrainWaiting(s, newCommit)

notifyCommitOffsetAdvanced(s, newCommit) ==
    DrainWaiting([s EXCEPT !.commitOffset = newCommit, !.notified[newCommit] = @ + 1],
                 newCommit)

\* An ack that takes a missing entry for an entry nobody acked yet.
ackUntracked(s, cursorIdx, offset) ==
    LET e == BitSetSet(IF offset \in DOMAIN s.tracker THEN s.tracker[offset] ELSE {},
                       cursorIdx) IN
    IF BitSetCount(e) = requiredAcks
    THEN notifyCommitOffsetAdvanced(
           [s EXCEPT !.tracker = [o \in DOMAIN s.tracker \ {offset} |-> s.tracker[o]]],
           offset)
    ELSE [s EXCEPT !.tracker = [o \in DOMAIN s.tracker \cup {offset} |->
                                  IF o = offset THEN e ELSE s.tracker[o]]]

\* An ack that leaves the entry in the map when it reaches the threshold.
ackKeepsEntry(s, cursorIdx, offset) ==
    IF offset \notin DOMAIN s.tracker THEN s
    ELSE LET e == BitSetSet(s.tracker[offset], cursorIdx) IN
         IF BitSetCount(e) = requiredAcks
         THEN notifyCommitOffsetAdvanced([s EXCEPT !.tracker[offset] = e], offset)
         ELSE [s EXCEPT !.tracker[offset] = e]

ack(s, cursorIdx, offset) ==
    IF offset \notin DOMAIN s.tracker THEN s
    ELSE LET e == BitSetSet(s.tracker[offset], cursorIdx) IN
         IF BitSetCount(e) = requiredAcks
         THEN notifyCommitOffsetAdvanced(
                [s EXCEPT !.tracker = [o \in DOMAIN s.tracker \ {offset} |-> s.tracker[o]]],
                offset)
         ELSE [s EXCEPT !.tracker[offset] = e]

RECURSIVE AckRange(_, _, _, _)
AckRange(s, cursorIdx, offset, ackOffset) ==
    IF offset > ackOffset THEN s
    ELSE AckRange(ack(s, cursorIdx, offset), cursorIdx, offset + 1, ackOffset)

\* Store the record back into the variables.
Unlock(s) ==
    /\ tracker' = s.tracker
    /\ commitOffset' = s.commitOffset
    /\ waitingRequests' = s.waitingRequests
    /\ calls' = s.calls
    /\ ch' = s.ch

\* waitForHeadOffset.Broadcast(): every caller blocked in Wait is woken.
Broadcast == hpc' = IF hpc = "waiting" THEN "woken" ELSE hpc

\* ---------------------------------------------------------------- actions
\* The record AdvanceHeadOffset(h) leaves.
AdvanceHeadOffsetLocked(h) ==
    IF h <= headOffset THEN Locked
    ELSE IF requiredAcks = 0 THEN notifyCommitOffsetAdvanced(Locked, h)
    ELSE [Locked EXCEPT !.tracker = [o \in DOMAIN tracker \cup {h} |->
                                       IF o = h THEN {} ELSE tracker[o]]]

AdvanceHeadOffset(h) ==
    /\ IF h <= headOffset
       THEN UNCHANGED <<trackerVars, waiterVars, headWaitVars>>
       ELSE /\ headOffset' = h
            /\ Broadcast
            /\ Unlock(AdvanceHeadOffsetLocked(h))
            /\ UNCHANGED <<replicationFactor, requiredAcks, nextOffset,
                           cursorIdxGenerator, closed, wpc, woffset, hoffset, hresult>>

\* An Add that returns the value it found (fetch-and-add).
AddResultOld(old, delta) == old

\* atomic.Int64.Add(delta) returns the new value.
AddResult(old, delta) == old + delta

NextOffset ==
    /\ nextOffset < initHead + MaxNextCalls
    /\ nextOffset' = nextOffset + 1
    /\ UNCHANGED <<waitingRequests, replicationFactor, requiredAcks, headOffset,
                   commitOffset, tracker, cursorIdxGenerator, closed>>
    /\ UNCHANGED <<waiterVars, headWaitVars>>

\* A limit that lets one cursor too many in.
NewCursorAckerErrLate(ackOffset) ==
    IF cursorIdxGenerator > replicationFactor - 1 THEN "TooManyCursors"
    ELSE IF ackOffset > headOffset THEN "InvalidHeadOffset"
    ELSE "nil"

\* The error NewCursorAcker returns for this ackOffset ("nil": none).
\* replicationFactor >= 1 here, so the uint32 subtraction does not wrap.
NewCursorAckerErr(ackOffset) ==
    IF cursorIdxGenerator >= replicationFactor - 1 THEN "TooManyCursors"
    ELSE IF ackOffset > headOffset THEN "InvalidHeadOffset"
    ELSE "nil"

\* The record NewCursorAcker(ackOffset) leaves: that of its pre-ack loop.
NewCursorAckerLocked(ackOffset) ==
    IF NewCursorAckerErr(ackOffset) # "nil" THEN Locked
    ELSE AckRange(Locked, cursorIdxGenerator, commitOffset + 1, ackOffset)

\* A registration that takes its index before it checks ackOffset.
NewCursorAckerCountsFirst(ackOffset) ==
    /\ IF NewCursorAckerErr(ackOffset) = "TooManyCursors"
       THEN UNCHANGED <<trackerVars, waiterVars>>
       ELSE /\ Unlock(NewCursorAckerLocked(ackOffset))
            /\ cursorIdxGenerator' = cursorIdxGenerator + 1
            /\ UNCHANGED <<replicationFactor, requiredAcks, nextOffset, headOffset,
                           closed, wpc, woffset>>
    /\ UNCHANGED headWaitVars

NewCursorAcker(ackOffset) ==
    /\ IF NewCursorAckerErr(ackOffset) # "nil"
       THEN UNCHANGED <<trackerVars, waiterVars>>
       ELSE /\ Unlock(NewCursorAckerLocked(ackOffset))
            /\ cursorIdxGenerator' = cursorIdxGenerator + 1
            /\ UNCHANGED <<replicationFactor, requiredAcks, nextOffset, headOffset,
                           closed, wpc, woffset>>
    /\ UNCHANGED headWaitVars

\* CursorAcker.Ack by the cursor with index c. A follower acks entries of the
\* leader's log, so the offset is at most the head offset.
Ack(c, offset) ==
    /\ c < cursorIdxGenerator
    /\ offset <= headOffset
    /\ Unlock(ack(Locked, c, offset))
    /\ UNCHANGED <<replicationFactor, requiredAcks, nextOffset, headOffset,
                   cursorIdxGenerator, closed, wpc, woffset>>
    /\ UNCHANGED headWaitVars

\* A check of the waiter's offset against the head offset.
RegisterAgainstHead(s, r) ==
    IF closed THEN Invoke(s, r, "AlreadyClosed")
    ELSE IF requiredAcks = 0 \/ headOffset >= r.minOffset THEN Invoke(s, r, "nil")
    ELSE [s EXCEPT !.waitingRequests = Append(@, r)]

\* The locked part of WaitForCommitOffsetAsync and the closure call that follows
\* it, for the waiting request r.
Register(s, r) ==
    IF closed THEN Invoke(s, r, "AlreadyClosed")
    ELSE IF requiredAcks = 0 \/ s.commitOffset >= r.minOffset THEN Invoke(s, r, "nil")
    ELSE [s EXCEPT !.waitingRequests = Append(@, r)]

WaitForCommitOffsetAsync(w, offset) ==
    /\ wpc[w] = "idle"
    /\ Unlock(Register(Locked, [minOffset |-> offset, closure |-> w, wrapped |-> FALSE]))
    /\ wpc' = [wpc EXCEPT ![w] = "async"]
    /\ woffset' = [woffset EXCEPT ![w] = offset]
    /\ UNCHANGED <<replicationFactor, requiredAcks, nextOffset, headOffset,
                   cursorIdxGenerator, closed>>
    /\ UNCHANGED headWaitVars

\* WaitForCommitOffset up to its select statement.
WaitForCommitOffset(w, offset) ==
    /\ wpc[w] = "idle"
    /\ Unlock(Register(Locked, [minOffset |-> offset, closure |-> w, wrapped |-> TRUE]))
    /\ wpc' = [wpc EXCEPT ![w] = "select"]
    /\ woffset' = [woffset EXCEPT ![w] = offset]
    /\ UNCHANGED <<replicationFactor, requiredAcks, nextOffset, headOffset,
                   cursorIdxGenerator, closed>>
    /\ UNCHANGED headWaitVars

\* select: case <-ch
SelectCh(w) ==
    /\ wpc[w] = "select"
    /\ ch[w] > 0
    /\ ch' = [ch EXCEPT ![w] = @ - 1]
    /\ wpc' = [wpc EXCEPT ![w] = "returned"]
    /\ UNCHANGED <<trackerVars, woffset, calls, headWaitVars>>

\* select: case <-ctx.Done(), the caller's context being cancelled by now.
SelectCtxDone(w) ==
    /\ wpc[w] = "select"
    /\ calls' = [calls EXCEPT ![w] =
                   Append(@, [err |-> "Canceled", commit |-> commitOffset])]
    /\ wpc' = [wpc EXCEPT ![w] = "returned"]
    /\ UNCHANGED <<trackerVars, woffset, ch, headWaitVars>>

\* The loop condition of WaitForHeadOffset.
HeadLoop(offset) == ~closed /\ headOffset < offset

\* WaitForHeadOffset up to its first Wait, or to its return.
WaitForHeadOffset(offset) ==
    /\ hpc = "idle"
    /\ hoffset' = offset
    /\ IF HeadLoop(offset)
       THEN hpc' = "waiting" /\ hresult' = hresult
       ELSE hpc' = "returned" /\ hresult' = "nil"
    /\ UNCHANGED <<trackerVars, waiterVars>>

\* Wait returns nil after a Broadcast; the loop condition is evaluated again.
HeadWake ==
    /\ hpc = "woken"
    /\ IF HeadLoop(hoffset)
       THEN hpc' = "waiting" /\ hresult' = hresult
       ELSE hpc' = "returned" /\ hresult' = "nil"
    /\ UNCHANGED <<trackerVars, waiterVars, hoffset>>

\* Wait returns the context's error.
HeadCancel ==
    /\ hpc \in {"waiting", "woken"}
    /\ hpc' = "returned"
    /\ hresult' = "Canceled"
    /\ UNCHANGED <<trackerVars, waiterVars, hoffset>>

Close ==
    /\ closed' = TRUE
    /\ Broadcast
    /\ UNCHANGED <<waitingRequests, replicationFactor, requiredAcks, nextOffset,
                   headOffset, commitOffset, tracker, cursorIdxGenerator>>
    /\ UNCHANGED <<waiterVars, hoffset, hresult>>

\* ------------------------------------------------- shard-assignment receiver
ShardIds == 1..NumShards
HashRanges == {r \in [MinInclusive : 0..MaxHash, MaxInclusive : 0..MaxHash] :
                 r.MinInclusive <= r.MaxInclusive}
ShardUpdates == [Id : ShardIds, HashRange : HashRanges]

overlap(a, b) ==
    ~(a.MinInclusive > b.MaxInclusive \/ a.MaxInclusive < b.MinInclusive)

\* The assignment messages: one or two shards with distinct ids and hash ranges
\* that do not intersect, in any order.
Batches ==
    {<<u>> : u \in ShardUpdates} \cup
    {b \in {<<u, v>> : u \in ShardUpdates, v \in ShardUpdates} :
        b[1].Id # b[2].Id /\ ~overlap(b[1].HashRange, b[2].HashRange)}

\* One iteration of update's loop on the map m.
updateOne(m, u) ==
    LET kept == IF u.Id \in DOMAIN m
                THEN DOMAIN m
                ELSE {id \in DOMAIN m : ~overlap(u.HashRange, m[id])}
    IN [id \in kept \cup {u.Id} |-> IF id = u.Id THEN u.HashRange ELSE m[id]]

RECURSIVE update(_, _)
update(m, updates) ==
    IF updates = <<>> THEN m
    ELSE update(updateOne(m, Head(updates)), Tail(updates))

\* The tracker is another object: no step of the shard manager touches it.
TrackerUnchanged == UNCHANGED <<trackerVars, waiterVars, headWaitVars, obsVars>>

\* Start up to its receive on readyC: both tasks are spawned.
Start ==
    /\ startPc = "idle"
    /\ startPc' = "ready?"
    /\ recvPc' = "connect"
    /\ cancelPc' = "waiting"
    /\ UNCHANGED <<shards, closeC, ctxDone, received>>
    /\ TrackerUnchanged

\* receive returns an error to the closure receiveWithRecovery retries: it
\* returns nil when isClosed(), which ends RetryNotify, and the error otherwise.
ReceiveReturns == recvPc' = IF closeC THEN "exited" ELSE "backoff"

\* GetClientRpc and ShardAssignments succeed.
Connect ==
    /\ recvPc = "connect"
    /\ ~ctxDone
    /\ recvPc' = "recv"
    /\ UNCHANGED <<shards, closeC, ctxDone, startPc, cancelPc, received>>
    /\ TrackerUnchanged

\* GetClientRpc or ShardAssignments fails.
ConnectFails ==
    /\ recvPc = "connect"
    /\ ReceiveReturns
    /\ UNCHANGED <<shards, closeC, ctxDone, startPc, cancelPc, received>>
    /\ TrackerUnchanged

\* stream.Recv returns a message: update applies it and the task goes on to
\* the send on readyC.
Recv(batch) ==
    /\ recvPc = "recv"
    /\ ~ctxDone
    /\ received < MaxBatches
    /\ shards' = update(shards, batch)
    /\ received' = received + 1
    /\ recvPc' = "ready!"
    /\ UNCHANGED <<closeC, ctxDone, startPc, cancelPc>>
    /\ TrackerUnchanged

\* stream.Recv returns an error (the stream broke or the context was cancelled).
RecvFails ==
    /\ recvPc = "recv"
    /\ ReceiveReturns
    /\ UNCHANGED <<shards, closeC, ctxDone, startPc, cancelPc, received>>
    /\ TrackerUnchanged

\* readyC is unbuffered: the send in receive and the receive in Start happen
\* together. Start returns; the task resets the backoff and loops to Recv.
Ready ==
    /\ recvPc = "ready!"
    /\ startPc = "ready?"
    /\ recvPc' = "recv"
    /\ startPc' = "returned"
    /\ UNCHANGED <<shards, closeC, ctxDone, cancelPc, received>>
    /\ TrackerUnchanged

\* RetryNotify's wait is over: the closure runs again.
Retry ==
    /\ recvPc = "backoff"
    /\ recvPc' = "connect"
    /\ UNCHANGED <<shards, closeC, ctxDone, startPc, cancelPc, received>>
    /\ TrackerUnchanged

\* The backoff's context is cancelled during the wait: RetryNotify returns.
RetryCancelled ==
    /\ recvPc = "backoff"
    /\ ctxDone
    /\ recvPc' = "exited"
    /\ UNCHANGED <<shards, closeC, ctxDone, startPc, cancelPc, received>>
    /\ TrackerUnchanged

\* shardManagerImpl.Close: close(s.closeC), called once.
ShardManagerClose ==
    /\ ~closeC
    /\ closeC' = TRUE
    /\ UNCHANGED <<shards, ctxDone, startPc, recvPc, cancelPc, received>>
    /\ TrackerUnchanged

\* The cancellation task: its receive on closeC returns once the channel is
\* closed, and it cancels the RPC context.
Cancel ==
    /\ cancelPc = "waiting"
    /\ closeC
    /\ cancelPc' = "done"
    /\ ctxDone' = TRUE
    /\ UNCHANGED <<shards, closeC, startPc, recvPc, received>>
    /\ TrackerUnchanged

\* A step of the receiver task.
ReceiverStep ==
    \/ Connect
    \/ ConnectFails
    \/ \E b \in Batches : Recv(b)
    \/ RecvFails
    \/ Ready
    \/ Retry
    \/ RetryCancelled

\* ------------------------------------------------------------ observations
\* What a step adds to the observation variables.
ObserveNothing == UNCHANGED <<obsVars, shardVars>>

ObserveAdvance(h) ==
    /\ unreserved' = (unreserved \/ h > nextOffset)
    /\ UNCHANGED <<initHead, initCommit, returned, acked, granted, lastOp, skipped,
                   notified, popped>>
    /\ UNCHANGED shardVars

ObserveNextOffset ==
    /\ returned' = Append(returned, AddResult(nextOffset, 1))
    /\ UNCHANGED <<initHead, initCommit, acked, granted, unreserved, lastOp, skipped,
                   notified, popped>>
    /\ UNCHANGED shardVars

ObserveNewCursor(ackOffset) ==
    /\ acked' = IF NewCursorAckerErr(ackOffset) = "nil"
                THEN acked \cup {<<cursorIdxGenerator, o>> :
                                   o \in (commitOffset + 1)..ackOffset}
                ELSE acked
    /\ granted' = IF NewCursorAckerErr(ackOffset) = "nil"
                  THEN Append(granted, cursorIdxGenerator)
                  ELSE granted
    /\ UNCHANGED <<initHead, initCommit, returned, unreserved, lastOp, skipped,
                   notified, popped>>
    /\ UNCHANGED shardVars

ObserveAck(c, offset) ==
    /\ acked' = acked \cup {<<c, offset>>}
    /\ UNCHANGED <<initHead, initCommit, returned, granted, unreserved, lastOp, skipped,
                   notified, popped>>
    /\ UNCHANGED shardVars

\* The closures of the waiting requests in the queue q.
Closures(q) == {q[i].closure : i \in 1..Len(q)}

\* A step of the ack path returns: the closures it took out of the queue are
\* recorded.
ObserveDrain ==
    /\ popped' = popped \cup (Closures(waitingRequests) \ Closures(waitingRequests'))
    /\ UNCHANGED <<initHead, initCommit, returned, acked, granted, unreserved, lastOp,
                   skipped, notified>>
    /\ UNCHANGED shardVars

\* A call of op(arg) returns err, s being the record its locked section leaves:
\* the call, the head offset, commit offset and cursor index generator it found
\* and the notifications it made are recorded.
ObserveCall(op, arg, err, s) ==
    /\ lastOp' = [op |-> op, arg |-> arg, err |-> err, head |-> headOffset,
                  commit |-> commitOffset, idx |-> cursorIdxGenerator]
    /\ skipped' = (skipped \/ (op = "AdvanceHeadOffset" /\ arg > headOffset + 1))
    /\ notified' = s.notified
    /\ granted' = IF op = "NewCursorAcker" /\ err = "nil"
                  THEN Append(granted, cursorIdxGenerator)
                  ELSE granted
    /\ UNCHANGED <<initHead, initCommit, returned, acked, unreserved, popped>>
    /\ UNCHANGED shardVars

\* --------------------------------------------------------- specifications
\* The whole tracker.
Next ==
    \/ \E h \in Offsets : AdvanceHeadOffset(h) /\ ObserveAdvance(h)
    \/ NextOffset /\ ObserveNextOffset
    \/ \E a \in Offsets : NewCursorAcker(a) /\ ObserveNewCursor(a)
    \/ \E c \in 0..(MaxRF - 1), o \in Offsets : Ack(c, o) /\ ObserveAck(c, o)
    \/ \E w \in Waiters, o \in Offsets : WaitForCommitOffsetAsync(w, o) /\ ObserveNothing
    \/ \E w \in Waiters, o \in Offsets : WaitForCommitOffset(w, o) /\ ObserveNothing
    \/ \E w \in Waiters : SelectCh(w) /\ ObserveNothing
    \/ \E w \in Waiters : SelectCtxDone(w) /\ ObserveNothing
    \/ \E o \in Offsets : WaitForHeadOffset(o) /\ ObserveNothing
    \/ HeadWake /\ ObserveNothing
    \/ HeadCancel /\ ObserveNothing
    \/ Close /\ ObserveNothing

Spec == Init /\ [][Next]_vars

\* The ack path alone: head advancement, cursor registration and acks, with the
\* acks observed. No step left out reads or writes the tracker map, the offsets
\* or the cursor index generator.
NextAcks ==
    \/ \E h \in Offsets : AdvanceHeadOffset(h) /\ ObserveNothing
    \/ \E a \in Offsets : NewCursorAcker(a) /\ ObserveNewCursor(a)
    \/ \E c \in 0..(MaxRF - 1), o \in Offsets : Ack(c, o) /\ ObserveAck(c, o)

SpecAcks == Init /\ [][NextAcks]_vars

\* Offset reservation and head advancement.
NextOffsets ==
    \/ NextOffset /\ ObserveNextOffset
    \/ \E h \in Offsets : AdvanceHeadOffset(h) /\ ObserveAdvance(h)
    \/ \E a \in Offsets : NewCursorAcker(a) /\ ObserveNothing
    \/ \E c \in 0..(MaxRF - 1), o \in Offsets : Ack(c, o) /\ ObserveNothing

SpecOffsets == Init /\ [][NextOffsets]_vars

\* The ack path with each call's return observed.
NextCalls ==
    \/ \E h \in Offsets :
          AdvanceHeadOffset(h)
            /\ ObserveCall("AdvanceHeadOffset", h, "nil", AdvanceHeadOffsetLocked(h))
    \/ \E a \in Offsets :
          NewCursorAcker(a)
            /\ ObserveCall("NewCursorAcker", a, NewCursorAckerErr(a), NewCursorAckerLocked(a))
    \/ \E c \in 0..(MaxRF - 1), o \in Offsets :
          Ack(c, o) /\ ObserveCall("Ack", o, "nil", ack(Locked, c, o))

SpecCalls == Init /\ [][NextCalls]_vars

\* The shard-assignment receiver, next to a tracker nobody calls.
InitShards == Init /\ replicationFactor = 1 /\ initHead = 0 /\ initCommit = 0

NextShards ==
    \/ Start
    \/ Connect
    \/ ConnectFails
    \/ \E b \in Batches : Recv(b)
    \/ RecvFails
    \/ Ready
    \/ Retry
    \/ RetryCancelled
    \/ ShardManagerClose
    \/ Cancel

SpecShards == InitShards /\ [][NextShards]_vars

\* The waiters are followed on a tracker built with head = commit = 0 and a
\* replication factor of 1 (requiredAcks = 0) or 3 (requiredAcks = 1).
InitWait == Init /\ initHead = 0 /\ initCommit = 0 /\ replicationFactor \in {1, 3}

\* Commit-offset waiters registered through WaitForCommitOffsetAsync.
NextWait ==
    \/ \E h \in Offsets : AdvanceHeadOffset(h) /\ ObserveDrain
    \/ \E a \in Offsets : NewCursorAcker(a) /\ ObserveDrain
    \/ \E c \in 0..(MaxRF - 1), o \in Offsets : Ack(c, o) /\ ObserveDrain
    \/ \E w \in Waiters, o \in Offsets : WaitForCommitOffsetAsync(w, o) /\ ObserveNothing
    \/ Close /\ ObserveNothing

SpecWait == InitWait /\ [][NextWait]_vars

\* The calls that return without effect, on a tracker with a waiter and a Close.
NextFrame ==
    \/ \E h \in Offsets :
          AdvanceHeadOffset(h)
            /\ ObserveCall("AdvanceHeadOffset", h, "nil", AdvanceHeadOffsetLocked(h))
    \/ \E a \in Offsets :
          NewCursorAcker(a)
            /\ ObserveCall("NewCursorAcker", a, NewCursorAckerErr(a), NewCursorAckerLocked(a))
    \/ \E c \in 0..(MaxRF - 1), o \in Offsets :
          Ack(c, o) /\ ObserveCall("Ack", o, "nil", ack(Locked, c, o))
    \/ \E o \in Offsets :
          WaitForCommitOffsetAsync(1, o)
            /\ ObserveCall("WaitForCommitOffsetAsync", o, "nil", Locked)
    \/ Close /\ ObserveCall("Close", 0, "nil", Locked)

SpecFrame == InitWait /\ [][NextFrame]_vars

\* Callers of the synchronous WaitForCommitOffset.
NextSync ==
    \/ \E h \in Offsets : AdvanceHeadOffset(h) /\ ObserveNothing
    \/ \E a \in Offsets : NewCursorAcker(a) /\ ObserveNothing
    \/ \E c \in 0..(MaxRF - 1), o \in Offsets : Ack(c, o) /\ ObserveNothing
    \/ \E w \in Waiters, o \in Offsets : WaitForCommitOffset(w, o) /\ ObserveNothing
    \/ \E w \in Waiters : SelectCh(w) /\ ObserveNothing
    \/ \E w \in Waiters : SelectCtxDone(w) /\ ObserveNothing
    \/ Close /\ ObserveNothing

SpecSync == InitWait /\ [][NextSync]_vars

\* Head-offset waiter.
NextHead ==
    \/ \E h \in Offsets : AdvanceHeadOffset(h) /\ ObserveNothing
    \/ \E o \in Offsets : WaitForHeadOffset(o) /\ ObserveNothing
    \/ HeadWake /\ ObserveNothing
    \/ HeadCancel /\ ObserveNothing
    \/ Close /\ ObserveNothing

SpecHead == Init /\ [][NextHead]_vars
\* ------------------------------------------------------------------ claims
\* The cursors that acked offset o (through Ack or at their registration).
Ackers(o) == {c \in 0..(MaxRF - 1) : <<c, o>> \in acked}

\* C1: commitOffset is monotonically non-decreasing: no step of a tracker (built
\* with commit <= head) takes commitOffset from a value v to a value below v.
C1_CommitMonotone == [][initCommit <= initHead => commitOffset' >= commitOffset]_vars

\* C2: quorum safety: with requiredAcks >= 1 (and a tracker built with
\* commit <= head), every offset above the commit offset given at construction
\* and up to commitOffset has been acked by at least requiredAcks distinct cursors.
C2_QuorumSafety ==
    (requiredAcks >= 1 /\ initCommit <= initHead) =>
        \A o \in (initCommit + 1)..commitOffset : Cardinality(Ackers(o)) >= requiredAcks

\* C3 as stated: built with commit <= head, the tracker keeps
\* commitOffset <= headOffset <= nextOffset - 1 in every state, the first included.
C3_Original ==
    initCommit <= initHead =>
        /\ commitOffset <= headOffset
        /\ headOffset <= nextOffset - 1

\* C3 as amended: built with commit <= head, the tracker keeps
\* commitOffset <= headOffset in every state, and headOffset <= nextOffset as long
\* as AdvanceHeadOffset was only given offsets that NextOffset had returned.
C3_OffsetOrder ==
    initCommit <= initHead =>
        /\ commitOffset <= headOffset
        /\ (~unreserved => headOffset <= nextOffset)

\* C3's case: offsets were reserved, the head advanced over them and acks
\* committed them.
C3_Witness ==
    /\ initCommit <= initHead
    /\ ~unreserved
    /\ Len(returned) = 2
    /\ headOffset = nextOffset
    /\ commitOffset = headOffset
    /\ commitOffset > initHead
    /\ requiredAcks >= 1

\* C10: the n-th NextOffset call returns head + n, head being the head offset
\* given at construction: the values are pairwise distinct and contiguous from
\* head + 1.
C10_NextOffsetContiguous ==
    \A i \in 1..Len(returned) : returned[i] = initHead + i

\* C10's case: NextOffset was called at least twice, between other operations.
C10_Witness ==
    /\ Len(returned) >= 2
    /\ headOffset > initHead
    /\ cursorIdxGenerator > 0

\* The closure of caller w is held in waitingRequests.
Queued(w) == \E i \in 1..Len(waitingRequests) : waitingRequests[i].closure = w

\* The invocations of w's closure that carried a nil error.
OkCalls(w) == {i \in 1..Len(calls[w]) : calls[w][i].err = "nil"}

\* C4: the synchronous WaitForCommitOffset invokes the caller's closure exactly
\* once; in particular a closure that was invoked with the cancellation cause is
\* its last invocation, whatever commit advancement follows.
C4_ClosureExactlyOnce ==
    \A w \in Waiters : \A i \in 1..Len(calls[w]) :
        calls[w][i].err = "Canceled" => i = Len(calls[w])

\* C5 as stated: whatever the replication factor, a closure registered through
\* WaitForCommitOffsetAsync for offset o is invoked with a nil error only when
\* commitOffset >= o.
C5_Original ==
    \A w \in Waiters : \A i \in OkCalls(w) : calls[w][i].commit >= woffset[w]

\* C5 as amended: with requiredAcks >= 1, a closure registered through
\* WaitForCommitOffsetAsync for offset o is invoked with a nil error only when
\* commitOffset >= o (commitOffset as the tracker reads it under its lock when
\* it decides to invoke).
C5_OkOnlyWhenCommitted ==
    requiredAcks >= 1 =>
        \A w \in Waiters : \A i \in OkCalls(w) : calls[w][i].commit >= woffset[w]

\* C5's case: two closures were queued and a commit advancement invoked both.
C5_Witness ==
    /\ requiredAcks >= 1
    /\ \A w \in Waiters :
          /\ woffset[w] >= 1
          /\ OkCalls(w) # {}
          /\ calls[w][1].commit = MaxOffset
    /\ woffset[1] # woffset[2]

\* C6: Close releases every pending waiter: once Close has been called no
\* closure is left pending in waitingRequests (no other operation than a later
\* Ack or AdvanceHeadOffset would take it out).
C6_CloseReleasesWaiters == closed => waitingRequests = <<>>

\* C7: WaitForHeadOffset returns nil only if headOffset >= offset (headOffset
\* never decreases, so this is also true when it returns).
C7_NilOnlyAtHead == hresult = "nil" => headOffset >= hoffset

\* C8 as stated: whatever the order of enqueueing, no waiter whose minOffset is
\* <= commitOffset is left in waitingRequests.
C8_Original ==
    \A i \in 1..Len(waitingRequests) : waitingRequests[i].minOffset > commitOffset

\* C8 as amended: the waiter at the front of waitingRequests has
\* minOffset > commitOffset, so a waiter with minOffset <= commitOffset is left
\* only behind a waiter with a larger minOffset that was enqueued before it; and
\* every registered closure is either still queued and not invoked, or out of
\* the queue and invoked exactly once.
C8_FrontWaits ==
    /\ waitingRequests # <<>> => Head(waitingRequests).minOffset > commitOffset
    /\ \A w \in Waiters :
          wpc[w] = "async" =>
              \/ Queued(w) /\ calls[w] = <<>>
              \/ ~Queued(w) /\ Len(calls[w]) = 1

\* C8's case: a commit advancement has completed and left a waiter whose
\* minOffset it reached behind a waiter with a larger minOffset.
C8_Witness ==
    /\ Len(waitingRequests) = 2
    /\ commitOffset >= 1
    /\ waitingRequests[2].minOffset <= commitOffset
    /\ waitingRequests[1].minOffset > commitOffset

C11_CursorLimit ==
    /\ Len(granted) <= replicationFactor - 1
    /\ \A i \in 1..Len(granted) : granted[i] >= 0 /\ granted[i] < replicationFactor - 1
    /\ \A i, j \in 1..Len(granted) : i # j => granted[i] # granted[j]
    /\ cursorIdxGenerator = Len(granted)
    /\ Len(granted) = replicationFactor - 1 =>
          \A a \in Offsets : NewCursorAckerErr(a) = "TooManyCursors"

\* C11's case: a tracker with replication factor 4 has handed out its three
\* cursors, after calls that failed with InvalidHeadOffset were possible.
C11_Witness ==
    /\ replicationFactor = 4
    /\ Len(granted) = 3
    /\ headOffset < MaxOffset

\* The statement of C12 as the specification words it: for a replication factor
\* of 1 or 2 the commit offset equals the head offset after every
\* AdvanceHeadOffset call.
C12_Original ==
    (replicationFactor \in {1, 2} /\ lastOp.op = "AdvanceHeadOffset")
        => commitOffset = headOffset

\* C12: with requiredAcks = 0 (replication factor 1), an AdvanceHeadOffset call
\* with an argument above the head offset returns with the commit offset and the
\* head offset both equal to the argument; a call with an argument at or below
\* the head offset returns with both offsets as it found them.
C12_CommitFollowsHead ==
    (requiredAcks = 0 /\ lastOp.op = "AdvanceHeadOffset") =>
        IF lastOp.arg > lastOp.head
        THEN commitOffset = lastOp.arg /\ headOffset = lastOp.arg
        ELSE commitOffset = lastOp.commit /\ headOffset = lastOp.head

\* C12's case: a tracker with replication factor 1 built with commit below head
\* has just had its head advanced.
C12_Witness ==
    /\ replicationFactor = 1
    /\ initCommit < initHead
    /\ lastOp.op = "AdvanceHeadOffset"
    /\ lastOp.arg > lastOp.head

\* C13: the receiver task is never at its send of the ready signal when Start
\* has already taken the signal, so it never blocks there on a later message.
C13_NeverBlocksOnReady == ~(recvPc = "ready!" /\ startPc = "returned")

\* C14: once the shard manager is closed and the cancellation task has
\* cancelled the RPC context, the receiver task has exited or can take a step.
C14_ReceiverCanExit ==
    (closeC /\ ctxDone /\ recvPc # "exited") => ENABLED ReceiverStep

\* C20: the hash ranges of the shards in the map are pairwise non-overlapping
\* after any sequence of applied assignment messages.
C20_NoOverlap ==
    \A i, j \in DOMAIN shards : i # j => ~overlap(shards[i], shards[j])

\* C15: with requiredAcks >= 1, after every completed call the offsets the
\* tracker map holds are exactly those above the commit offset and at or below
\* the head offset.
C15_TrackerKeys ==
    (requiredAcks >= 1 /\ initCommit <= initHead)
        => DOMAIN tracker = (commitOffset + 1)..headOffset

\* C16: a successful NewCursorAcker(ackOffset) has applied the ack path with the
\* new cursor's index to every offset above the commit offset it found, up to
\* ackOffset: with requiredAcks = 1, the head advanced one offset at a time and
\* commitOffset < ackOffset <= headOffset, the commit offset equals ackOffset on
\* return; with requiredAcks > 1, each offset of that range still in the
\* tracker map has the new cursor's bit set.
C16_PreAcked ==
    (/\ lastOp.op = "NewCursorAcker"
     /\ lastOp.err = "nil"
     /\ initCommit <= initHead
     /\ ~skipped)
    => /\ (requiredAcks = 1 /\ lastOp.commit < lastOp.arg /\ lastOp.arg <= lastOp.head)
            => commitOffset = lastOp.arg
       /\ requiredAcks > 1 =>
            \A o \in (lastOp.commit + 1)..lastOp.arg :
                o \in DOMAIN tracker => lastOp.idx \in tracker[o]

\* C18: notifyCommitOffsetAdvanced is called at most once with a given offset.
C18_NotifiedOnce == \A o \in Offsets : notified[o] <= 1

\* C18's case: an offset that reached the threshold and was notified is acked
\* once more, by an Ack that finds the commit offset already at that offset.
C18_Witness ==
    /\ initCommit = 0
    /\ lastOp.op = "Ack"
    /\ lastOp.arg >= 1
    /\ lastOp.commit = lastOp.arg
    /\ notified[lastOp.arg] = 1

\* The number of waiters a step took from the front of the queue.
Taken == Len(waitingRequests) - Len(waitingRequests')

\* C17: a step that advances the commit offset takes waiters from the front of
\* waitingRequests in insertion order: each waiter taken has minOffset at most
\* the new commit offset and its closure gets one more invocation, with Ok; the
\* first waiter left has minOffset above the new commit offset; it and the
\* waiters behind it stay in their order; and no other closure is invoked.
C17_FifoDrain ==
    [][commitOffset' # commitOffset =>
         /\ Taken >= 0
         /\ waitingRequests' =
               SubSeq(waitingRequests, Taken + 1, Len(waitingRequests))
         /\ \A i \in 1..Taken :
               LET r == waitingRequests[i] IN
               /\ r.minOffset <= commitOffset'
               /\ Len(calls'[r.closure]) = Len(calls[r.closure]) + 1
               /\ SubSeq(calls'[r.closure], 1, Len(calls[r.closure])) = calls[r.closure]
               /\ calls'[r.closure][Len(calls'[r.closure])].err = "nil"
         /\ waitingRequests' # <<>> => Head(waitingRequests').minOffset > commitOffset'
         /\ \A w \in Waiters :
               w \notin {waitingRequests[i].closure : i \in 1..Taken}
                  => calls'[w] = calls[w]
    ]_vars

\* C17's case: a commit advancement has taken a waiter from the front of the
\* queue and invoked it, and stopped at a waiter with a larger minOffset.
C17_Witness ==
    /\ popped # {}
    /\ \A w \in popped : Len(calls[w]) = 1 /\ calls[w][1].err = "nil"
    /\ waitingRequests # <<>>
    /\ Head(waitingRequests).minOffset > commitOffset

\* C19: a NewCursorAcker call that returns TooManyCursors or InvalidHeadOffset,
\* and an AdvanceHeadOffset call with an argument at or below the head offset,
\* leave every field of the tracker as they found it, and invoke no closure.
C19_FailedCallsChangeNothing ==
    [][(\/ lastOp'.op = "NewCursorAcker" /\ lastOp'.err # "nil"
        \/ lastOp'.op = "AdvanceHeadOffset" /\ lastOp'.arg <= headOffset)
       => UNCHANGED <<trackerVars, waiterVars>>]_vars

\* C19's case: NewCursorAcker has returned InvalidHeadOffset on a tracker with
\* a cursor, a tracked offset and a queued waiter.
C19_Witness ==
    /\ lastOp.op = "NewCursorAcker"
    /\ lastOp.err = "InvalidHeadOffset"
    /\ cursorIdxGenerator = 1
    /\ DOMAIN tracker # {}
    /\ waitingRequests # <<>>
====
